---- MODULE Spec2Model ----
(***************************************************************************)
(* Model of src/ocr_api.py: the POST /ocr handler ocr_file.  One request   *)
(* is followed statement by statement: the upload is written in chunks to  *)
(* a temporary file, a PDF is processed page by page (rasterize one page,  *)
(* recognize it, append the labelled text, drop the bitmap), any other     *)
(* file is opened as one image, the texts are joined and returned, and the *)
(* finally block removes the temporary file.  The libraries the handler    *)
(* calls (PdfReader, convert_from_path, image_to_string, Image.open,       *)
(* UploadFile.read) either return or raise; both outcomes are enabled.     *)
(***************************************************************************)
EXTENDS Integers, Sequences, FiniteSets, TLC

VARIABLES
    pc,          \* position of the handler
    filename,    \* file.filename, a sequence of characters
    lang,        \* the lang form field
    chunksLeft,  \* chunks of the upload not read yet
    written,     \* chunks written to the temporary file
    tmpExists,   \* the temporary file is on disk
    removed,     \* number of os.remove(tmp_path) calls made
    badAccess,   \* some step read tmp_path while the file was not on disk
    texts,       \* the list texts
    nPages,      \* len(reader.pages), once counted
    counted,     \* len(reader.pages) has been evaluated
    i,           \* the loop variable of the page loop
    live,        \* bitmaps held in memory: page numbers, 0 for the image file
    text,        \* the local variable text
    recognized,  \* the texts image_to_string returned, in call order
    rasterCalls, \* the first_page arguments of the convert_from_path calls
    recogCalls,  \* the lang arguments of the image_to_string calls
    countCalls,  \* number of PdfReader(tmp_path) calls
    exc,         \* the exception propagating out of the handler, or "None"
    result,      \* "none", "text" (a dict with a text field) or "error"
    body         \* the value of the text field of the returned dict

vars == << pc, filename, lang, chunksLeft, written, tmpExists, removed,
           badAccess, texts, nPages, counted, i, live, text, recognized,
           rasterCalls, recogCalls, countCalls, exc, result, body >>

\* Bounds of the model.
MaxPages == 3
MaxChunks == 2

\* Inputs.
Filenames == { << "a", ".", "p", "d", "f" >>,
               << "B", ".", "P", "D", "F" >>,
               << "c", ".", "p", "n", "g" >>,
               << "p", "d", "f" >> }
Langs == { "eng", "deu" }
PageTexts == { "A", "B", "C", "Hello" }

\* str.lower() on one character.
LowerChar(c) ==
    CASE c = "P" -> "p"
      [] c = "D" -> "d"
      [] c = "F" -> "f"
      [] c = "B" -> "b"
      [] OTHER -> c

Lower(s) == [ k \in 1..Len(s) |-> LowerChar(s[k]) ]

EndsWith(s, suffix) ==
    /\ Len(s) >= Len(suffix)
    /\ SubSeq(s, Len(s) - Len(suffix) + 1, Len(s)) = suffix

\* file.filename.lower().endswith(".pdf")
IsPdf(name) == EndsWith(Lower(name), << ".", "p", "d", "f" >>)

\* Decimal formatting of a non-negative integer inside an f-string.
DigitChars == << "0", "1", "2", "3", "4", "5", "6", "7", "8", "9" >>

RECURSIVE Dec(_)
Dec(n) == IF n < 10 THEN DigitChars[n + 1]
          ELSE Dec(n \div 10) \o DigitChars[(n % 10) + 1]

PageLabelOffByOne(idx, t) == "\n--- Page " \o Dec(idx) \o " ---\n" \o t

\* f"\n--- Page {i + 1} ---\n{text}"
PageLabel(idx, t) == "\n--- Page " \o Dec(idx + 1) \o " ---\n" \o t

\* "".join(texts)
RECURSIVE Join(_)
Join(seq) == IF seq = << >> THEN "" ELSE Head(seq) \o Join(Tail(seq))

\* A step that reads tmp_path notes whether the file was there.
ReadsTmp == badAccess' = (badAccess \/ ~tmpExists)

Init ==
    /\ pc = "create"
    /\ filename \in Filenames
    /\ lang \in Langs
    /\ chunksLeft \in 0..MaxChunks
    /\ written = 0
    /\ tmpExists = FALSE
    /\ removed = 0
    /\ badAccess = FALSE
    /\ texts = << >>
    /\ nPages = 0
    /\ counted = FALSE
    /\ i = 0
    /\ live = {}
    /\ text = ""
    /\ recognized = << >>
    /\ rasterCalls = << >>
    /\ recogCalls = << >>
    /\ countCalls = 0
    /\ exc = "None"
    /\ result = "none"
    /\ body = ""

\* tempfile.NamedTemporaryFile(delete=False, suffix=file.filename)
CreateTemp ==
    /\ pc = "create"
    /\ tmpExists' = TRUE
    /\ pc' = "read"
    /\ UNCHANGED << filename, lang, chunksLeft, written, removed, badAccess,
                    texts, nPages, counted, i, live, text, recognized,
                    rasterCalls, recogCalls, countCalls, exc, result, body >>

\* One turn of the while loop: a chunk is read and written.
WriteChunk ==
    /\ pc = "read"
    /\ chunksLeft > 0
    /\ chunksLeft' = chunksLeft - 1
    /\ written' = written + 1
    /\ UNCHANGED << pc, filename, lang, tmpExists, removed, badAccess, texts,
                    nPages, counted, i, live, text, recognized, rasterCalls,
                    recogCalls, countCalls, exc, result, body >>

\* file.read or tmp.write raises: the with block closes the file, which was
\* created with delete=False, and the exception leaves the handler before
\* the try statement is entered.
UploadFails ==
    /\ pc = "read"
    /\ exc' = "IngestionError"
    /\ result' = "error"
    /\ pc' = "done"
    /\ UNCHANGED << filename, lang, chunksLeft, written, tmpExists, removed,
                    badAccess, texts, nPages, counted, i, live, text,
                    recognized, rasterCalls, recogCalls, countCalls, body >>

\* file.read returns b"": tmp_path = tmp.name, texts = [], the try is entered.
UploadDone ==
    /\ pc = "read"
    /\ chunksLeft = 0
    /\ texts' = << >>
    /\ pc' = "try"
    /\ UNCHANGED << filename, lang, chunksLeft, written, tmpExists, removed,
                    badAccess, nPages, counted, i, live, text, recognized,
                    rasterCalls, recogCalls, countCalls, exc, result, body >>

\* reader = PdfReader(tmp_path)
OpenPdfOk ==
    /\ pc = "try"
    /\ IsPdf(filename)
    /\ ReadsTmp
    /\ countCalls' = countCalls + 1
    /\ pc' = "count"
    /\ UNCHANGED << filename, lang, chunksLeft, written, tmpExists, removed,
                    texts, nPages, counted, i, live, text, recognized,
                    rasterCalls, recogCalls, exc, result, body >>

\* PdfReader(tmp_path) raises.
OpenPdfFails ==
    /\ pc = "try"
    /\ IsPdf(filename)
    /\ ReadsTmp
    /\ countCalls' = countCalls + 1
    /\ exc' = "DocumentDecodeError"
    /\ pc' = "finally"
    /\ UNCHANGED << filename, lang, chunksLeft, written, tmpExists, removed,
                    texts, nPages, counted, i, live, text, recognized,
                    rasterCalls, recogCalls, result, body >>

\* range(len(reader.pages)) is evaluated: the loop starts at i = 0.
CountPagesOk ==
    /\ pc = "count"
    /\ \E n \in 0..MaxPages : nPages' = n
    /\ counted' = TRUE
    /\ ReadsTmp
    /\ i' = 0
    /\ pc' = "loop"
    /\ UNCHANGED << filename, lang, chunksLeft, written, tmpExists, removed,
                    texts, live, text, recognized, rasterCalls, recogCalls,
                    countCalls, exc, result, body >>

CountPagesFailsContinues ==
    /\ pc = "count"
    /\ ReadsTmp
    /\ exc' = "DocumentDecodeError"
    /\ pc' = "raster"
    /\ UNCHANGED << filename, lang, chunksLeft, written, tmpExists, removed,
                    texts, nPages, counted, i, live, text, recognized,
                    rasterCalls, recogCalls, countCalls, result, body >>

\* len(reader.pages) raises.
CountPagesFails ==
    /\ pc = "count"
    /\ ReadsTmp
    /\ exc' = "DocumentDecodeError"
    /\ pc' = "finally"
    /\ UNCHANGED << filename, lang, chunksLeft, written, tmpExists, removed,
                    texts, nPages, counted, i, live, text, recognized,
                    rasterCalls, recogCalls, countCalls, result, body >>

\* The for statement takes the next index, or the loop is over.
LoopNext ==
    /\ pc = "loop"
    /\ i < nPages
    /\ pc' = "raster"
    /\ UNCHANGED << filename, lang, chunksLeft, written, tmpExists, removed,
                    badAccess, texts, nPages, counted, i, live, text,
                    recognized, rasterCalls, recogCalls, countCalls, exc,
                    result, body >>

LoopExit ==
    /\ pc = "loop"
    /\ i >= nPages
    /\ pc' = "return"
    /\ UNCHANGED << filename, lang, chunksLeft, written, tmpExists, removed,
                    badAccess, texts, nPages, counted, i, live, text,
                    recognized, rasterCalls, recogCalls, countCalls, exc,
                    result, body >>

\* images = convert_from_path(tmp_path, dpi=200, first_page=i+1, last_page=i+1)
RasterizeOk ==
    /\ pc = "raster"
    /\ ReadsTmp
    /\ rasterCalls' = Append(rasterCalls, i + 1)
    /\ live' = live \cup { i + 1 }
    /\ pc' = "recog"
    /\ UNCHANGED << filename, lang, chunksLeft, written, tmpExists, removed,
                    texts, nPages, counted, i, text, recognized, recogCalls,
                    countCalls, exc, result, body >>

\* convert_from_path raises: no bitmap was made, the exception leaves the loop.
RasterizeFails ==
    /\ pc = "raster"
    /\ ReadsTmp
    /\ rasterCalls' = Append(rasterCalls, i + 1)
    /\ exc' = "RasterizationError"
    /\ pc' = "finally"
    /\ UNCHANGED << filename, lang, chunksLeft, written, tmpExists, removed,
                    texts, nPages, counted, i, live, text, recognized,
                    recogCalls, countCalls, result, body >>

\* text = pytesseract.image_to_string(images[0], lang=lang)
RecognizeOk ==
    /\ pc = "recog"
    /\ \E t \in PageTexts :
          /\ text' = t
          /\ recognized' = Append(recognized, t)
    /\ recogCalls' = Append(recogCalls, lang)
    /\ pc' = "append"
    /\ UNCHANGED << filename, lang, chunksLeft, written, tmpExists, removed,
                    badAccess, texts, nPages, counted, i, live, rasterCalls,
                    countCalls, exc, result, body >>

\* image_to_string raises: del images is skipped, images stays bound in the
\* frame the propagating exception refers to.
RecognizeFails ==
    /\ pc = "recog"
    /\ recogCalls' = Append(recogCalls, lang)
    /\ exc' = "RecognitionError"
    /\ pc' = "finally"
    /\ UNCHANGED << filename, lang, chunksLeft, written, tmpExists, removed,
                    badAccess, texts, nPages, counted, i, live, text,
                    recognized, rasterCalls, countCalls, result, body >>

\* texts.append(f"\n--- Page {i + 1} ---\n{text}")
AppendText ==
    /\ pc = "append"
    /\ texts' = Append(texts, PageLabel(i, text))
    /\ pc' = "del"
    /\ UNCHANGED << filename, lang, chunksLeft, written, tmpExists, removed,
                    badAccess, nPages, counted, i, live, text, recognized,
                    rasterCalls, recogCalls, countCalls, exc, result, body >>

DelImagesKeepsBitmap ==
    /\ pc = "del"
    /\ i' = i + 1
    /\ pc' = "loop"
    /\ UNCHANGED << filename, lang, chunksLeft, written, tmpExists, removed,
                    badAccess, texts, nPages, counted, live, text, recognized,
                    rasterCalls, recogCalls, countCalls, exc, result, body >>

\* del images, the last statement of the loop body.
DelImages ==
    /\ pc = "del"
    /\ live' = live \ { i + 1 }
    /\ i' = i + 1
    /\ pc' = "loop"
    /\ UNCHANGED << filename, lang, chunksLeft, written, tmpExists, removed,
                    badAccess, texts, nPages, counted, text, recognized,
                    rasterCalls, recogCalls, countCalls, exc, result, body >>

\* img = Image.open(tmp_path).convert("RGB")
OpenImageOk ==
    /\ pc = "try"
    /\ ~IsPdf(filename)
    /\ ReadsTmp
    /\ live' = live \cup { 0 }
    /\ pc' = "imgrecog"
    /\ UNCHANGED << filename, lang, chunksLeft, written, tmpExists, removed,
                    texts, nPages, counted, i, text, recognized, rasterCalls,
                    recogCalls, countCalls, exc, result, body >>

\* Image.open or convert raises.
OpenImageFails ==
    /\ pc = "try"
    /\ ~IsPdf(filename)
    /\ ReadsTmp
    /\ exc' = "ImageOpenError"
    /\ pc' = "finally"
    /\ UNCHANGED << filename, lang, chunksLeft, written, tmpExists, removed,
                    texts, nPages, counted, i, live, text, recognized,
                    rasterCalls, recogCalls, countCalls, result, body >>

RecognizeImageLabelled ==
    /\ pc = "imgrecog"
    /\ \E t \in PageTexts :
          /\ text' = t
          /\ recognized' = Append(recognized, t)
          /\ texts' = Append(texts, PageLabel(0, t))
    /\ recogCalls' = Append(recogCalls, lang)
    /\ pc' = "return"
    /\ UNCHANGED << filename, lang, chunksLeft, written, tmpExists, removed,
                    badAccess, nPages, counted, i, live, rasterCalls,
                    countCalls, exc, result, body >>

\* text = pytesseract.image_to_string(img, lang=lang); texts.append(text)
RecognizeImageOk ==
    /\ pc = "imgrecog"
    /\ \E t \in PageTexts :
          /\ text' = t
          /\ recognized' = Append(recognized, t)
          /\ texts' = Append(texts, t)
    /\ recogCalls' = Append(recogCalls, lang)
    /\ pc' = "return"
    /\ UNCHANGED << filename, lang, chunksLeft, written, tmpExists, removed,
                    badAccess, nPages, counted, i, live, rasterCalls,
                    countCalls, exc, result, body >>

\* image_to_string(img, lang=lang) raises.
RecognizeImageFails ==
    /\ pc = "imgrecog"
    /\ recogCalls' = Append(recogCalls, lang)
    /\ exc' = "RecognitionError"
    /\ pc' = "finally"
    /\ UNCHANGED << filename, lang, chunksLeft, written, tmpExists, removed,
                    badAccess, texts, nPages, counted, i, live, text,
                    recognized, rasterCalls, countCalls, result, body >>

\* return {"text": "".join(texts)}: the value is computed, then finally runs.
Return ==
    /\ pc = "return"
    /\ result' = "text"
    /\ body' = Join(texts)
    /\ pc' = "finally"
    /\ UNCHANGED << filename, lang, chunksLeft, written, tmpExists, removed,
                    badAccess, texts, nPages, counted, i, live, text,
                    recognized, rasterCalls, recogCalls, countCalls, exc >>

CleanupOnlyOnSuccess ==
    /\ pc = "finally"
    /\ tmpExists' = IF exc = "None" THEN FALSE ELSE tmpExists
    /\ removed' = IF exc = "None" THEN removed + 1 ELSE removed
    /\ result' = IF exc = "None" THEN result ELSE "error"
    /\ live' = IF exc = "None" THEN {} ELSE live
    /\ pc' = "done"
    /\ UNCHANGED << filename, lang, chunksLeft, written, badAccess, texts,
                    nPages, counted, i, text, recognized, rasterCalls,
                    recogCalls, countCalls, exc, body >>

\* finally: os.remove(tmp_path); then the handler returns its dict (the frame
\* and its locals go away) or the exception propagates to the framework (the
\* traceback keeps the frame, so what the locals hold stays held).
Cleanup ==
    /\ pc = "finally"
    /\ tmpExists' = FALSE
    /\ removed' = removed + 1
    /\ result' = IF exc = "None" THEN result ELSE "error"
    /\ live' = IF exc = "None" THEN {} ELSE live
    /\ pc' = "done"
    /\ UNCHANGED << filename, lang, chunksLeft, written, badAccess, texts,
                    nPages, counted, i, text, recognized, rasterCalls,
                    recogCalls, countCalls, exc, body >>

Next ==
    \/ CreateTemp
    \/ WriteChunk
    \/ UploadFails
    \/ UploadDone
    \/ OpenPdfOk
    \/ OpenPdfFails
    \/ CountPagesOk
    \/ CountPagesFails
    \/ LoopNext
    \/ LoopExit
    \/ RasterizeOk
    \/ RasterizeFails
    \/ RecognizeOk
    \/ RecognizeFails
    \/ AppendText
    \/ DelImages
    \/ OpenImageOk
    \/ OpenImageFails
    \/ RecognizeImageOk
    \/ RecognizeImageFails
    \/ Return
    \/ Cleanup

Spec == Init /\ [][Next]_vars

----------------------------------------------------------------------------
\* Positions inside the processing of one page.
PageSteps == { "raster", "recog", "append", "del" }

\* Positions between the start of the try statement and its finally block.
PipelineSteps == PageSteps \cup
                 { "try", "count", "loop", "imgrecog", "return", "finally" }

PageError == exc \in { "RasterizationError", "RecognitionError" }

\* The labelled text expected for page k with recognized text t.
ExpectedPage(k, t) == "\n--- Page " \o Dec(k) \o " ---\n" \o t

\* The expected document text for the first k recognized page texts.
RECURSIVE ExpectedText(_)
ExpectedText(k) ==
    IF k = 0 THEN ""
    ELSE ExpectedText(k - 1) \o ExpectedPage(k, recognized[k])

\* C1: when a page of an N-page PDF fails in rasterization or recognition,
\* processing does not stop there: all N pages are rasterized, N page results
\* are collected and the request ends with a text result.
C1_FailureIsolation ==
    (pc = "done" /\ IsPdf(filename) /\ counted /\ PageError) =>
        /\ Len(rasterCalls) = nPages
        /\ Len(texts) = nPages
        /\ result = "text"

\* C2: the collected results of a PDF are always the results of pages 1..k in
\* ascending order, none skipped or duplicated, and when the request is over
\* there are exactly N of them, N the page count.
C2_OneResultPerPage ==
    IsPdf(filename) =>
        /\ Len(texts) <= nPages
        /\ Len(texts) <= Len(recognized)
        /\ \A k \in 1..Len(texts) : texts[k] = ExpectedPage(k, recognized[k])
        /\ (pc = "done" /\ counted) => Len(texts) = nPages

\* C3: once the page count of the stored upload is known, the request ends
\* with a result that has a text field, whatever happens on a page.
C3_AlwaysText ==
    (pc = "done" /\ counted) => result = "text"

\* C4: the temporary file is on disk at every step of the pipeline, no step
\* reads it when it is gone, and it is removed exactly once when the pipeline
\* is over, whether the pipeline returned or raised.
C4_TempFileLifecycle ==
    /\ pc \in PipelineSteps => (tmpExists /\ removed = 0)
    /\ ~badAccess
    /\ removed <= 1
    /\ (pc = "done" /\ exc # "IngestionError") => (~tmpExists /\ removed = 1)

C4_Witness ==
    /\ pc = "done"
    /\ exc = "RecognitionError"
    /\ rasterCalls = << 1, 2 >>
    /\ removed = 1
    /\ ~tmpExists

\* C5: while a PDF is processed at most one page bitmap is held, and no
\* bitmap is held when the rasterization of the next page begins.
C5_OneBitmap ==
    IsPdf(filename) =>
        /\ Cardinality(live) <= 1
        /\ pc = "raster" => live = {}

C5_Witness ==
    /\ pc = "recog"
    /\ i = 1
    /\ live = { 2 }

\* C6: the text returned for a PDF of N pages is the concatenation, for
\* i = 1..N, of "\n--- Page i ---\n" and the text recognized on page i; it is
\* the empty text for N = 0.
C6_DocumentText ==
    (pc = "done" /\ IsPdf(filename) /\ result = "text") =>
        /\ Len(recognized) = nPages
        /\ body = ExpectedText(nPages)
        /\ nPages = 0 => body = ""
        /\ recognized = << "A", "B", "C" >> =>
              body = "\n--- Page 1 ---\nA\n--- Page 2 ---\nB\n--- Page 3 ---\nC"

C6_Witness ==
    /\ pc = "done"
    /\ IsPdf(filename)
    /\ result = "text"
    /\ recognized = << "A", "B", "C" >>

\* C7: when the PDF cannot be opened or its pages cannot be counted, no page
\* is rasterized, nothing is recognized, and the request ends with an error.
C7_NoPageWorkAfterDecodeError ==
    exc = "DocumentDecodeError" =>
        /\ pc \in { "finally", "done" }
        /\ rasterCalls = << >>
        /\ recogCalls = << >>
        /\ live = {}
        /\ texts = << >>
        /\ pc = "done" => result = "error"

C7_Witness ==
    /\ pc = "done"
    /\ exc = "DocumentDecodeError"
    /\ result = "error"
    /\ countCalls = 1

C9_BitmapReleased ==
    pc \notin PageSteps => live \cap (1..nPages) = {}

\* C10: when the handler has ended, no temporary file it created is left.
C10_NoTempFileLeft ==
    pc = "done" => ~tmpExists

====
